---- MODULE Spec2Model ----
(***************************************************************************)
(* DEMOD terminal chromatic tuner, src/src/demod.ts.                       *)
(*                                                                         *)
(* The model covers the reference pitch (REFERENCE_FREQ, saveA4, the key   *)
(* handlers), the capture sessions started by startCapture (the capture    *)
(* process, its stdout stream, the read loop with its pending-byte buffer, *)
(* the 'close' callback) and the per-frame analysis (level meter,          *)
(* calcBands, detectPitch, the pitch tracker, the two history buffers).    *)
(*                                                                         *)
(* Numbers.  TLC has 32-bit integers only, so the program's doubles are    *)
(* modelled in fixed point, each quantity in a unit of its own:            *)
(*   sample      the Int16 read by readInt16LE; floats[i] = sample / 32768 *)
(*   correlation a sum of products of samples, in units of 2^-30, kept     *)
(*               with its divisor (n - lag) as an exact fraction           *)
(*   frequency   HZ units per hertz                                        *)
(*   pitch       SEMI units per semitone                                   *)
(*   level       ONE units for 1.0                                         *)
(* null is <<>> and a present value v is <<v>>.                            *)
(*                                                                         *)
(* Specifications, all over the same variables:                            *)
(*   Spec       sessions that overlap: keys, processes, loops, callbacks   *)
(*   SpecAsm    one session whose stream is split at every byte            *)
(*   SpecTrack  one session analysing voiced and unvoiced frames           *)
(*   SpecA4     the reference pitch from flag, file, prompt and nudges     *)
(*   SpecRing   runs longer than the history buffers                       *)
(*   SpecBands  calcBands applied to drawn frames, rates and band counts   *)
(*   SpecMeter  one session of frames of several levels, then silence      *)
(***************************************************************************)
EXTENDS Integers, Sequences, FiniteSets, TLC

\* -------------------------------------------------------------------------
\* Bounds of the model
\* -------------------------------------------------------------------------

\* Samples per frame in the model.  The program's NFFT is 1024; every
\* operation below is written for a frame length n, as the program's are.
FrameLen == 5

\* Frames a capture process writes before it exits.
MaxFrames == 2

\* Capture sessions (calls of startCapture) in one run.
MaxSessions == 2

\* -------------------------------------------------------------------------
\* Units
\* -------------------------------------------------------------------------

HZ == 10 * 10
SEMI == 10 * 100
ONE == 10 * 100

Null == <<>>
Some(v) == <<v>>
IsNull(o) == o = <<>>
Val(o) == o[1]

Abs(x) == IF x < 0 THEN -x ELSE x
Min2(a, b) == IF a < b THEN a ELSE b
Max2(a, b) == IF a > b THEN a ELSE b

\* <<q, r>> with a * b = q * c + r and 0 <= r < c, for a, b >= 0 and c > 0,
\* computed without an intermediate product (a * b may exceed 32 bits).
RECURSIVE MulDivQR(_, _, _)
MulDivQR(a, b, c) ==
  IF b = 0 THEN <<0, 0>>
  ELSE LET h == MulDivQR(a, b \div 2, c)
           t == 2 * h[2] + (IF b % 2 = 1 THEN a % c ELSE 0)
           e == IF b % 2 = 1 THEN a \div c ELSE 0
       IN  <<2 * h[1] + e + (t \div c), t % c>>

\* floor(a * b / c) for b >= 0, c > 0 and any sign of a.
MulDiv(a, b, c) ==
  IF a >= 0 THEN MulDivQR(a, b, c)[1]
  ELSE LET qr == MulDivQR(-a, b, c)
       IN  IF qr[2] = 0 THEN -qr[1] ELSE -(qr[1] + 1)

\* a / b < c / d for a, c >= 0 and b, d > 0, by the Euclidean algorithm.
RECURSIVE FracLess(_, _, _, _)
FracLess(a, b, c, d) ==
  LET qa == a \div b
      qc == c \div d
      ra == a % b
      rc == c % d
  IN  IF qa # qc THEN qa < qc
      ELSE IF rc = 0 THEN FALSE
      ELSE IF ra = 0 THEN TRUE
      ELSE FracLess(d, rc, b, ra)

\* floor(sqrt(x)) for 0 <= x, by bisection on lo <= sqrt(x) < hi.
RECURSIVE ISqrtIn(_, _, _)
ISqrtIn(x, lo, hi) ==
  IF hi - lo <= 1 THEN lo
  ELSE LET mid == (lo + hi) \div 2
       IN  IF mid * mid <= x THEN ISqrtIn(x, mid, hi) ELSE ISqrtIn(x, lo, mid)

ISqrt(x) == ISqrtIn(x, 0, 46341)

RECURSIVE SumSeq(_)
SumSeq(s) == IF s = <<>> THEN 0 ELSE Head(s) + SumSeq(Tail(s))


\* -------------------------------------------------------------------------
\* Program constants
\* -------------------------------------------------------------------------

\* const SILENCE = 0.007, in thousandths.
SILENCE_MILLI == 7

\* const VU_GAIN = 6.
VU_GAIN == 6

\* state.vu * 0.92 and state.vuPeak *= 0.97, in hundredths.
VU_DECAY_PCT == 92
PEAK_DECAY_PCT == 97

\* state.vuPeakTimer = 45.
PEAK_HOLD == 45

\* if (state.waterfall.length > 20) and if (state.history.length > 200).
WATERFALL_MAX == 20
HISTORY_MAX == 200

\* if (state.lostFrames > 5) and hasSignal's lostFrames < 6.
LOST_MAX == 5
SIGNAL_LOST == 6

\* if (f && f > 25 && f < 2500).
F_MIN == 25
F_MAX == 2500

\* 0.32 * m + 0.68 * state.smoothMidi, in hundredths.
ALPHA_PCT == 32

\* saveA4's bounds and the default of REFERENCE_FREQ, in hertz.
A4_MIN == 415
A4_MAX == 465
A4_DEFAULT == 440

\* -------------------------------------------------------------------------
\* Frame assembly: bytes to samples (startCapture, lines 659-668)
\* -------------------------------------------------------------------------

\* const chunkSize = NFFT * 2.
chunkSize == FrameLen * 2

\* The same read with the high byte first.
readInt16BE(slice, off) ==
  LET u == 256 * slice[off + 1] + slice[off + 2]
  IN  IF u >= 32768 THEN u - 65536 ELSE u

\* slice.readInt16LE(off): two bytes, low byte first, two's complement.
readInt16LE(slice, off) ==
  LET u == slice[off + 1] + 256 * slice[off + 2]
  IN  IF u >= 32768 THEN u - 65536 ELSE u

\* floats[i] = slice.readInt16LE(i * 2) / 32768, kept as the Int16 numerator.
Floats(slice) == [i \in 1..FrameLen |-> readInt16LE(slice, (i - 1) * 2)]

\* sumSq of lines 664-668 and rms of lines 721-722, in units of 2^-30.
SumSq(buf) == SumSeq([i \in 1..Len(buf) |-> buf[i] * buf[i]])

\* Cutting that forgets the bytes left over.
SlicesDropRest(buffer) ==
  [frames |-> [j \in 1..(Len(buffer) \div chunkSize) |->
                 Floats(SubSeq(buffer, (j - 1) * chunkSize + 1, j * chunkSize))],
   buffer |-> <<>>]

\* The frames cut from a pending buffer and the bytes left over:
\* while (buffer.length >= chunkSize) { slice = buffer.subarray(0, chunkSize);
\* buffer = buffer.subarray(chunkSize); ... }
RECURSIVE Slices(_)
Slices(buffer) ==
  IF Len(buffer) >= chunkSize
  THEN LET rest == Slices(SubSeq(buffer, chunkSize + 1, Len(buffer)))
       IN  [frames |-> <<Floats(SubSeq(buffer, 1, chunkSize))>> \o rest.frames,
            buffer |-> rest.buffer]
  ELSE [frames |-> <<>>, buffer |-> buffer]

\* -------------------------------------------------------------------------
\* Level meter (lines 669-674)
\* -------------------------------------------------------------------------

\* The scaled level without its upper bound.
VuUnclamped(buf) ==
  ISqrt(MulDiv(SumSq(buf), VU_GAIN * VU_GAIN * ((ONE * ONE) \div 64),
               Len(buf) * 16777216))

\* Math.min(1, Math.sqrt(sumSq / NFFT) * VU_GAIN) in ONE units:
\* sqrt(sumSq * VU_GAIN^2 * ONE^2 / (n * 2^30)), with 2^6 cancelled.
VuScaled(buf) ==
  Min2(ONE, ISqrt(MulDiv(SumSq(buf), VU_GAIN * VU_GAIN * ((ONE * ONE) \div 64),
                         Len(buf) * 16777216)))

\* The product x * pct / 100 as floating point gives it: rounded to the
\* nearest representable value, a tie to the even one.  A level of a few
\* units therefore decays to itself, as a double of a few units in the last
\* place (6 * 2^-1074 under * 0.92, 16 * 2^-1074 under * 0.97) does.
RoundPct(x, pct) ==
  LET q == (x * pct) \div 100
      r == (x * pct) % 100
  IN  IF r > 50 \/ (r = 50 /\ q % 2 = 1) THEN q + 1 ELSE q

\* A meter that holds its level instead of releasing it.
VuHeld(vu, vuScaled) == IF vuScaled > vu THEN vuScaled ELSE vu

\* state.vu = vuScaled > state.vu ? vuScaled : state.vu * 0.92
VuNext(vu, vuScaled) ==
  IF vuScaled > vu THEN vuScaled ELSE RoundPct(vu, VU_DECAY_PCT)

\* if (state.vu > state.vuPeak) { vuPeak = vu; vuPeakTimer = 45 }
\* else if (--state.vuPeakTimer <= 0) state.vuPeak *= 0.97
\* A peak marker that starts to fall one frame late.
PeakLate(vu, vuPeak, vuPeakTimer) ==
  IF vu > vuPeak THEN [vuPeak |-> vu, vuPeakTimer |-> PEAK_HOLD]
  ELSE [vuPeak |-> IF vuPeakTimer - 1 < 0
                   THEN RoundPct(vuPeak, PEAK_DECAY_PCT) ELSE vuPeak,
        vuPeakTimer |-> vuPeakTimer - 1]

PeakNext(vu, vuPeak, vuPeakTimer) ==
  IF vu > vuPeak THEN [vuPeak |-> vu, vuPeakTimer |-> PEAK_HOLD]
  ELSE [vuPeak |-> IF vuPeakTimer - 1 <= 0
                   THEN RoundPct(vuPeak, PEAK_DECAY_PCT) ELSE vuPeak,
        vuPeakTimer |-> vuPeakTimer - 1]

\* -------------------------------------------------------------------------
\* Correlations
\* -------------------------------------------------------------------------

NaN == <<>>
IsNaN(x) == x = <<>>

\* sum over 0 <= i < n - lag of buf[i] * buf[i + lag]
AcSum(buf, lag) ==
  SumSeq([i \in 1..(Len(buf) - lag) |-> buf[i] * buf[i + lag]])

\* s / (n - lag) as the fraction <<s, n - lag>>.  At lag = n the sum is
\* empty and 0 / 0 is NaN; beyond n it is 0 / negative, a zero.
ac(buf, lag) ==
  IF lag = Len(buf) THEN NaN
  ELSE IF lag > Len(buf) THEN <<0, 1>>
  ELSE <<AcSum(buf, lag), Len(buf) - lag>>

\* x < y for fractions <<num, den>> with den > 0 and any sign of num.
FLess(x, y) ==
  IF x[1] < 0 /\ y[1] >= 0 THEN TRUE
  ELSE IF x[1] >= 0 /\ y[1] < 0 THEN FALSE
  ELSE IF x[1] >= 0 THEN FracLess(x[1], x[2], y[1], y[2])
  ELSE FracLess(-y[1], y[2], -x[1], x[2])

\* -------------------------------------------------------------------------
\* calcBands (lines 704-717)
\* -------------------------------------------------------------------------

\* lo * Math.pow(hi / lo, i / (count - 1)) with lo = 80 and hi = 5000, in HZ
\* units, tabulated for the band counts the model uses (2 to 5); i from 0.
BandFreq(i, count) ==
  CASE count = 2 -> <<8000, 500000>>[i + 1]
    [] count = 3 -> <<8000, 63246, 500000>>[i + 1]
    [] count = 4 -> <<8000, 31748, 125992, 500000>>[i + 1]
    [] count = 5 -> <<8000, 22494, 63246, 177828, 500000>>[i + 1]

\* Math.round(sampleRate / f): floor(sampleRate / f + 1/2)
BandLag(i, count, sampleRate) ==
  (2 * sampleRate * HZ + BandFreq(i, count)) \div (2 * BandFreq(i, count))

\* One raw band value (lines 708-713).  With count = 1 the exponent is 0 / 0,
\* so f and lag are NaN, both tests of line 710 are false, the loop of line
\* 712 does not run and the value pushed is 0 / NaN = NaN.
BandRaw(buf, i, count, sampleRate) ==
  IF count = 1 THEN NaN
  ELSE LET lag == BandLag(i, count, sampleRate)
       IN  IF lag < 2 \/ lag >= Len(buf) THEN <<0, 1>>
           ELSE <<AcSum(buf, lag), Len(buf) - lag>>

\* 1e-8 in units of 2^-30: 2^30 / 10^8 = 2^22 / 5^8.
BandEps == <<4194304, 390625>>

\* Math.max(...res, 1e-8): NaN when an element is NaN.
RECURSIVE BandMax(_, _)
BandMax(res, mx) ==
  IF res = <<>> THEN mx
  ELSE IF IsNaN(Head(res)) THEN NaN
  ELSE BandMax(Tail(res), IF FLess(mx, Head(res)) THEN Head(res) ELSE mx)

\* Math.min(1, v / mx) in ONE units; NaN when v or mx is NaN.
BandNorm(v, mx) ==
  IF IsNaN(v) \/ IsNaN(mx) THEN NaN
  ELSE IF ~FLess(v, mx) THEN <<ONE>>
  ELSE <<MulDiv(v[1], ONE * mx[2], v[2] * mx[1])>>

calcBands(buf, count, sampleRate) ==
  LET res == [i \in 1..Max2(count, 0) |-> BandRaw(buf, i - 1, count, sampleRate)]
      mx == BandMax(res, BandEps)
  IN  [i \in 1..Len(res) |-> BandNorm(res[i], mx)]


\* -------------------------------------------------------------------------
\* detectPitch (lines 719-748)
\* -------------------------------------------------------------------------

\* A frequency as detectPitch returns it: null, Infinity (a division by a
\* zero lag) or a number of HZ units.
FNull == [k |-> "null"]
FInf == [k |-> "inf"]
FHz(c) == [k |-> "hz", c |-> c]

\* A detector without its silence gate.
NeverSilent(buf) == FALSE

\* rms < SILENCE, squared: sumSq / n < SILENCE^2 * 2^30, with 2^6 cancelled.
RmsSilent(buf) ==
  FracLess(SumSq(buf), Len(buf),
           SILENCE_MILLI * SILENCE_MILLI * 16777216, (1000 * 1000) \div 64)

\* -Infinity, the initial bestV.
NegInf == <<-1, 0>>

\* s > bestV of line 733; false when s is NaN.
BetterThan(s, bestV) ==
  IF IsNaN(s) THEN FALSE
  ELSE IF bestV = NegInf THEN TRUE
  ELSE FLess(bestV, s)

\* for (let lag = minL; lag <= maxL; lag++) { ... if (s > bestV) ... }
\* started from b = (-1, -Infinity): the loop ends on the first lag whose s
\* is above every earlier s and not below any later one, and on b if every
\* s is NaN.
BestLag(buf, minL, maxL, b) ==
  LET s == [lag \in minL..maxL |-> ac(buf, lag)]
      lags == {lag \in minL..maxL : BetterThan(s[lag], b.bestV)}
      Last(lag) ==
        \A k \in lags : IF k < lag THEN BetterThan(s[lag], s[k])
                        ELSE ~BetterThan(s[k], s[lag])
  IN  IF lags = {} THEN b
      ELSE LET best == CHOOSE lag \in lags : Last(lag)
           IN  [best |-> best, bestV |-> s[best]]

\* bestV < SILENCE * 0.05 = 0.00035, in units of 2^-30: 35 * 2^25 / 5^5.
PeakWeak(bestV) ==
  FLess(bestV, <<5 * SILENCE_MILLI * 33554432, 3125>>)

\* y0, y1, y2 of line 743 over the common divisor d0 * d1 * d2, and the two
\* terms of line 744-745: num = y0 - y2 and den = d = 2 * (2 * y1 - y0 - y2).
Parabola(buf, best) ==
  LET y0 == ac(buf, best - 1)
      y1 == ac(buf, best)
      y2 == ac(buf, best + 1)
  IN  IF IsNaN(y0) \/ IsNaN(y1) \/ IsNaN(y2) THEN [nan |-> TRUE]
      ELSE LET Y0 == y0[1] * y1[2] * y2[2]
               Y1 == y1[1] * y0[2] * y2[2]
               Y2 == y2[1] * y0[2] * y1[2]
           IN  [nan |-> FALSE, num |-> Y0 - Y2, den |-> 2 * (2 * Y1 - Y0 - Y2),
                div |-> y0[2] * y1[2] * y2[2]]

\* Math.abs(d) > 1e-9, in units of 2^-30: 2^30 / 10^9 = 2^21 / 5^9.
Refinable(p) ==
  ~p.nan /\ FracLess(2097152, 1953125, Abs(p.den), p.div)

\* sampleRate / lag for a lag in units of 2^-16 sample.  A lag of zero gives
\* Infinity; so does, here, a positive lag under 2^-8 sample, whose quotient
\* is beyond 256 * sampleRate.
Quot16(sampleRate, lag16) ==
  IF lag16 >= 0 /\ lag16 < 256 THEN FInf
  ELSE IF lag16 > 0 THEN FHz(MulDiv(sampleRate * HZ, 65536, lag16))
  ELSE FHz(-MulDiv(sampleRate * HZ, 65536, -lag16))

\* best + (y0 - y2) / d in units of 2^-16 sample.
RefinedLag16(p, best) ==
  best * 65536 + (IF p.den > 0 THEN MulDiv(p.num, 65536, p.den)
                  ELSE MulDiv(-p.num, 65536, -p.den))

detectPitch(buf, sampleRate) ==
  LET minL == sampleRate \div 1600
      maxL == sampleRate \div 40
      b == BestLag(buf, minL, maxL, [best |-> -1, bestV |-> NegInf])
      p == Parabola(buf, b.best)
  IN  IF RmsSilent(buf) THEN FNull
      ELSE IF b.best < 0 \/ PeakWeak(b.bestV) THEN FNull
      ELSE IF b.best > minL /\ b.best < maxL /\ Refinable(p)
           THEN Quot16(sampleRate, RefinedLag16(p, b.best))
           ELSE Quot16(sampleRate, b.best * 65536)


\* -------------------------------------------------------------------------
\* Music theory (lines 312-322)
\* -------------------------------------------------------------------------

\* a / b scaled by powers of two into [1, 2): <<a', b', e>> with
\* a / b = (a' / b') * 2^e and b' <= a' < 2 * b'.
RECURSIVE Normalise(_, _, _)
Normalise(a, b, e) ==
  IF a >= 2 * b THEN Normalise(a, 2 * b, e + 1)
  ELSE IF a < b THEN Normalise(2 * a, b, e - 1)
  ELSE <<a, b, e>>

\* The first k binary digits of log2(y / 2^14) for 2^14 <= y < 2^15, by
\* repeated squaring.
RECURSIVE Log2Bits(_, _, _)
Log2Bits(y, k, acc) ==
  IF k = 0 THEN acc
  ELSE LET sq == (y * y) \div 16384
       IN  IF sq >= 32768 THEN Log2Bits(sq \div 2, k - 1, 2 * acc + 1)
           ELSE Log2Bits(sq, k - 1, 2 * acc)

\* Math.log2(a / b) in units of 2^-12, for a, b > 0.
Log2Fix(a, b) ==
  LET nz == Normalise(a, b, 0)
  IN  nz[3] * 4096 + Log2Bits(MulDiv(nz[1], 16384, nz[2]), 12, 0)

\* 2^(2^-k) for k = 1..12, in units of 2^-14.
Exp2Table ==
  <<23170, 19484, 17867, 17109, 16743, 16562, 16473, 16428, 16406, 16395,
    16390, 16387>>

\* 2^(fr / 4096) for 0 <= fr < 4096 in units of 2^-14: the product of the
\* table entries of the binary digits of fr, digit k weighing 2^-k.
RECURSIVE Exp2Bits(_, _, _)
Exp2Bits(fr, k, acc) ==
  IF k = 0 THEN acc
  ELSE Exp2Bits(fr \div 2, k - 1,
                IF fr % 2 = 1 THEN (acc * Exp2Table[k]) \div 16384 ELSE acc)

RECURSIVE Pow2(_)
Pow2(e) == IF e = 0 THEN 1 ELSE 2 * Pow2(e - 1)

\* const f2m = (f) => 69 + 12 * Math.log2(f / REFERENCE_FREQ), f and ref in
\* HZ units, the result in SEMI units.
f2m(f, ref) == 69 * SEMI + (12 * SEMI * Log2Fix(f, ref)) \div 4096

\* const m2f = (m) => REFERENCE_FREQ * Math.pow(2, (m - 69) / 12)
m2f(m, ref) ==
  LET x == ((m - 69 * SEMI) * 4096) \div (12 * SEMI)
      e == x \div 4096
      mant == Exp2Bits(x % 4096, 12, 16384)
      base == MulDiv(ref, mant, 16384)
  IN  IF e >= 0 THEN base * Pow2(e) ELSE base \div Pow2(-e)

\* JavaScript's a % b: the remainder has the sign of a.
JsRem(a, b) == IF a >= 0 THEN a % b ELSE -((-a) % b)

\* Math.round(m) for m in SEMI units: floor(m + 1/2).
RoundSemi(m) == (m + SEMI \div 2) \div SEMI

\* A parseNote that indexes NOTE_NAMES with the remainder of r as it is.
parseNoteRem(m) ==
  LET r == RoundSemi(m)
  IN  [name |-> JsRem(r, 12),
       oct |-> (r - 12) \div 12,
       cents |-> m - r * SEMI]

\* parseNote: name is the index into NOTE_NAMES, cents is (m - r) * 100 kept
\* in SEMI units (SEMI / 100 units per cent).
parseNote(m) ==
  LET r == RoundSemi(m)
  IN  [name |-> JsRem(JsRem(r, 12) + 12, 12),
       oct |-> (r - 12) \div 12,
       cents |-> m - r * SEMI]


\* drawTuner, line 533, for the note of line 532 (Null without a signal):
\* const inTune = note ? Math.abs(note.cents) <= 5 : false.
inTune(note) ==
  IF IsNull(note) THEN FALSE ELSE 100 * Abs(Val(note).cents) <= 5 * SEMI

\* -------------------------------------------------------------------------
\* State
\* -------------------------------------------------------------------------

VARIABLES
  pc,              \* "boot" until main() has run, then "run"
  CLI_A4,          \* the parsed --a4 flag: FHz(0) without the flag
  REFERENCE_FREQ,  \* in HZ units
  a4File,          \* the file A4_FILE: absent, junk, or a parsed number
  a4Call,          \* the last reference-pitch request and whether it reached saveA4
  overlay,         \* state.overlay
  selIdx,          \* state.selIdx
  activeDev,       \* state.activeDev
  freq,            \* state.freq
  smoothMidi,      \* state.smoothMidi
  waterfall,       \* state.waterfall
  vu,              \* state.vu
  vuPeak,          \* state.vuPeak
  vuPeakTimer,     \* state.vuPeakTimer
  history,         \* state.history
  proc,            \* state.proc: null or the session whose process it is
  cols,            \* state.cols
  status,          \* state.status
  lostFrames,      \* state.lostFrames
  nSess,           \* calls of startCapture that spawned a process
  sampleRate,      \* per session: const sampleRate = dev.rate
  buffer,          \* per session: let buffer
  active,          \* per session: let active
  pstate,          \* per session: the capture process, "none", "running", "exited"
  killed,          \* per session: state.proc.kill() was called on the process
  pipe,            \* per session: bytes written to stdout and not yet read
  sent,            \* per session: the frames the process has written, in order
  loop,            \* per session: the for await loop, "none", "reading", "done"
  closed,          \* per session: the 'close' event has been delivered
  received,        \* per session: every byte the read loop was handed, in order
  emitted,         \* per session: every frame the read loop analysed, in order
  ragged,          \* per session: some chunk ended inside a frame
  probe,           \* a pure function applied to drawn arguments, with its result
  keyTick          \* flips at each 'i' or Esc keypress the handler receives

a4Vars == <<CLI_A4, REFERENCE_FREQ, a4File, a4Call>>
uiVars == <<overlay, selIdx, activeDev, cols>>
anVars == <<freq, smoothMidi, waterfall, vu, vuPeak, vuPeakTimer, history, lostFrames>>
closureVars == <<sampleRate, buffer, active>>
procVars == <<pstate, killed, pipe, sent>>
loopVars == <<loop, closed, received, emitted, ragged>>
vars ==
  <<pc, a4Vars, uiVars, anVars, proc, status, nSess, closureVars, procVars, loopVars,
    probe, keyTick>>

Sessions == 1..MaxSessions

\* -------------------------------------------------------------------------
\* The environment: devices, terminal width, audio
\* -------------------------------------------------------------------------

\* detectDevices(): the devices found, each with the rate capture runs at.
\* The rates are scaled with the frame: the lags sampleRate / f the analysis
\* uses fall inside a frame of FrameLen samples, as those of 44100 or 48000
\* mostly do inside one of 1024.
devices == <<[id |-> 1, rate |-> 240], [id |-> 2, rate |-> 400]>>

\* Terminal widths: calcBands gets Math.min(state.cols - 6, 80) bands.
Cols == {8}

\* The amplitude 0x0404 of the frames below.
Amp == 4 * 256 + 4

\* Frames a device can deliver.  PulseTail(n, z) has the level Amp at its
\* first and its last but one sample and z at its last: the correlation
\* peaks at the lag n - 2 and z moves the refined lag off it.
SilentOf(n) == [i \in 1..n |-> 0]
PulseTail(n, z) ==
  [i \in 1..n |-> IF i = 1 \/ i = n - 1 THEN Amp ELSE IF i = n THEN z ELSE 0]
FlatOf(n) == [i \in 1..n |-> Amp]
AltOf(n) == [i \in 1..n |-> IF i % 2 = 1 THEN Amp ELSE -Amp]
\* Samples of both signs whose two bytes differ: high byte 0x01 or 0xFF,
\* low byte 1..3.
RampOf(n) ==
  [i \in 1..n |-> IF i % 2 = 1 THEN 256 + (i % 3) + 1 ELSE (i % 3) + 1 - 256]

Silent == SilentOf(FrameLen)
Pulse == PulseTail(FrameLen, 0)
PulseHi == PulseTail(FrameLen, Amp \div 4)
PulseLo == PulseTail(FrameLen, -(Amp \div 4))
Flat == FlatOf(FrameLen)
Alt == AltOf(FrameLen)
Ramp == RampOf(FrameLen)

\* One sample of level a, then silence: no pitch, a level that grows with a.
ImpulseOf(n, a) == [i \in 1..n |-> IF i = 1 THEN a ELSE 0]
Soft == ImpulseOf(FrameLen, 4 * 256)
Mid == ImpulseOf(FrameLen, 16 * 256)
Loud == ImpulseOf(FrameLen, 64 * 256)
Louder == ImpulseOf(FrameLen, 96 * 256)

\* The s16 little-endian bytes the capture process writes for a frame
\* (spawnCapture: "--format", "s16" / "-f", "S16_LE" / "-b", "16").
RECURSIVE Encode(_)
Encode(fr) ==
  IF fr = <<>> THEN <<>>
  ELSE LET u == IF Head(fr) < 0 THEN Head(fr) + 65536 ELSE Head(fr)
       IN  <<u % 256, u \div 256>> \o Encode(Tail(fr))

\* -------------------------------------------------------------------------
\* Reference pitch (lines 78-93)
\* -------------------------------------------------------------------------

FileAbsent == [k |-> "absent"]
FileJunk == [k |-> "junk"]
FileText(c) == [k |-> "text", c |-> c]

\* let REFERENCE_FREQ = CLI_A4 || 440, then the file when the flag is falsy
\* (absent, 0 or NaN) and the file parses to a value in 415..465.
BootA4(cli, file) ==
  LET truthy == cli.k = "hz" /\ cli.c # 0
      base == IF truthy THEN cli.c ELSE A4_DEFAULT * HZ
  IN  IF ~truthy /\ file.k = "text"
         /\ file.c >= A4_MIN * HZ /\ file.c <= A4_MAX * HZ
      THEN file.c ELSE base

\* val.toFixed(1) read back by parseFloat: val rounded to a tenth.
ToFixed1(val) == ((val + HZ \div 20) \div (HZ \div 10)) * (HZ \div 10)

\* saveA4 without its range check.
saveA4Unchecked(val, ok) ==
  /\ REFERENCE_FREQ' = val
  /\ a4File' = IF ok THEN FileText(ToFixed1(val)) ELSE a4File

\* function saveA4(val); ok is whether the write of the file succeeds (its
\* failure is caught and ignored).
saveA4(val, ok) ==
  IF val < A4_MIN * HZ \/ val > A4_MAX * HZ
  THEN UNCHANGED <<REFERENCE_FREQ, a4File>>
  ELSE /\ REFERENCE_FREQ' = val
       /\ a4File' = IF ok THEN FileText(ToFixed1(val)) ELSE a4File

\* -------------------------------------------------------------------------
\* Per-frame analysis (startCapture, lines 663-698)
\* -------------------------------------------------------------------------

\* if (f && f > 25 && f < 2500)
Candidate(f) ==
  f.k = "hz" /\ f.c # 0 /\ f.c > F_MIN * HZ /\ f.c < F_MAX * HZ

\* A buffer that refuses the new entry when it is full.
PushRefused(q, x, max) ==
  IF Len(q) + 1 > max THEN q ELSE Append(q, x)

\* push, then shift when the length exceeds max.
PushCapped(q, x, max) ==
  IF Len(q) + 1 > max THEN Tail(Append(q, x)) ELSE Append(q, x)

\* The tracker clearing the pitch one frame early.
TrackEarly(an, f, ref) ==
  IF Candidate(f)
  THEN LET m == f2m(f.c, ref)
           sm == IF IsNull(an.smoothMidi) THEN m
                 ELSE (ALPHA_PCT * m + (100 - ALPHA_PCT) * Val(an.smoothMidi)) \div 100
       IN  [an EXCEPT !.smoothMidi = Some(sm),
                      !.freq = Some(m2f(sm, ref)),
                      !.history = PushCapped(an.history, parseNote(sm).cents, HISTORY_MAX),
                      !.lostFrames = 0,
                      !.status = ""]
  ELSE LET lost == an.lostFrames + 1
       IN  [an EXCEPT !.lostFrames = lost,
                      !.smoothMidi = IF lost >= LOST_MAX THEN Null ELSE an.smoothMidi,
                      !.freq = IF lost >= LOST_MAX THEN Null ELSE an.freq,
                      !.history = PushCapped(an.history, 0, HISTORY_MAX)]

\* A tracker that drops the pitch at the first frame without a candidate.
TrackAbrupt(an, f, ref) ==
  IF Candidate(f)
  THEN LET m == f2m(f.c, ref)
           sm == IF IsNull(an.smoothMidi) THEN m
                 ELSE (ALPHA_PCT * m + (100 - ALPHA_PCT) * Val(an.smoothMidi)) \div 100
       IN  [an EXCEPT !.smoothMidi = Some(sm),
                      !.freq = Some(m2f(sm, ref)),
                      !.history = PushCapped(an.history, parseNote(sm).cents, HISTORY_MAX),
                      !.lostFrames = 0,
                      !.status = ""]
  ELSE [an EXCEPT !.lostFrames = an.lostFrames + 1,
                  !.smoothMidi = Null,
                  !.freq = Null,
                  !.history = PushCapped(an.history, 0, HISTORY_MAX)]

\* A tracker whose hysteresis clears the pitch and leaves the frequency.
TrackKeepFreq(an, f, ref) ==
  IF Candidate(f)
  THEN LET m == f2m(f.c, ref)
           sm == IF IsNull(an.smoothMidi) THEN m
                 ELSE (ALPHA_PCT * m + (100 - ALPHA_PCT) * Val(an.smoothMidi)) \div 100
       IN  [an EXCEPT !.smoothMidi = Some(sm),
                      !.freq = Some(m2f(sm, ref)),
                      !.history = PushCapped(an.history, parseNote(sm).cents, HISTORY_MAX),
                      !.lostFrames = 0,
                      !.status = ""]
  ELSE LET lost == an.lostFrames + 1
       IN  [an EXCEPT !.lostFrames = lost,
                      !.smoothMidi = IF lost > LOST_MAX THEN Null ELSE an.smoothMidi,
                      !.history = PushCapped(an.history, 0, HISTORY_MAX)]

\* A tracker without smoothing.
TrackUnsmoothed(an, f, ref) ==
  IF Candidate(f)
  THEN LET m == f2m(f.c, ref)
       IN  [an EXCEPT !.smoothMidi = Some(m),
                      !.freq = Some(m2f(m, ref)),
                      !.history = PushCapped(an.history, parseNote(m).cents, HISTORY_MAX),
                      !.lostFrames = 0,
                      !.status = ""]
  ELSE LET lost == an.lostFrames + 1
       IN  [an EXCEPT !.lostFrames = lost,
                      !.smoothMidi = IF lost > LOST_MAX THEN Null ELSE an.smoothMidi,
                      !.freq = IF lost > LOST_MAX THEN Null ELSE an.freq,
                      !.history = PushCapped(an.history, 0, HISTORY_MAX)]

\* Lines 680-696 on the analysis state an for the estimate f.
Track(an, f, ref) ==
  IF Candidate(f)
  THEN LET m == f2m(f.c, ref)
           sm == IF IsNull(an.smoothMidi) THEN m
                 ELSE (ALPHA_PCT * m + (100 - ALPHA_PCT) * Val(an.smoothMidi)) \div 100
       IN  [an EXCEPT !.smoothMidi = Some(sm),
                      !.freq = Some(m2f(sm, ref)),
                      !.history = PushCapped(an.history, parseNote(sm).cents, HISTORY_MAX),
                      !.lostFrames = 0,
                      !.status = ""]
  ELSE LET lost == an.lostFrames + 1
       IN  [an EXCEPT !.lostFrames = lost,
                      !.smoothMidi = IF lost > LOST_MAX THEN Null ELSE an.smoothMidi,
                      !.freq = IF lost > LOST_MAX THEN Null ELSE an.freq,
                      !.history = PushCapped(an.history, 0, HISTORY_MAX)]

\* Lines 669-696 for one frame of samples.
ProcessFrame(an, floats, rate, ref) ==
  LET v == VuNext(an.vu, VuScaled(floats))
      pk == PeakNext(v, an.vuPeak, an.vuPeakTimer)
      bands == calcBands(floats, Min2(an.cols - 6, 80), rate)
      an1 == [an EXCEPT !.vu = v,
                        !.vuPeak = pk.vuPeak,
                        !.vuPeakTimer = pk.vuPeakTimer,
                        !.waterfall = PushCapped(an.waterfall, bands, WATERFALL_MAX)]
  IN  Track(an1, detectPitch(floats, rate), ref)

\* The body of the while loop of line 659 for every frame cut from a buffer.
RECURSIVE ProcessFrames(_, _, _, _)
ProcessFrames(an, frames, rate, ref) ==
  IF frames = <<>> THEN an
  ELSE ProcessFrames(ProcessFrame(an, Head(frames), rate, ref), Tail(frames), rate, ref)

\* The fields of state the read loop reads and writes.
Analysis ==
  [vu |-> vu, vuPeak |-> vuPeak, vuPeakTimer |-> vuPeakTimer,
   waterfall |-> waterfall, smoothMidi |-> smoothMidi, freq |-> freq,
   history |-> history, lostFrames |-> lostFrames, status |-> status,
   cols |-> cols]

\* drawTuner, line 531.
hasSignal == smoothMidi # Null /\ lostFrames < SIGNAL_LOST

SetAnalysis(an) ==
  /\ vu' = an.vu
  /\ vuPeak' = an.vuPeak
  /\ vuPeakTimer' = an.vuPeakTimer
  /\ waterfall' = an.waterfall
  /\ smoothMidi' = an.smoothMidi
  /\ freq' = an.freq
  /\ history' = an.history
  /\ lostFrames' = an.lostFrames
  /\ status' = an.status


\* -------------------------------------------------------------------------
\* Initial state: the module-level declarations (lines 27-93 and 441-459)
\* -------------------------------------------------------------------------

NoCall == [op |-> "none"]
NoProbe == [op |-> "none"]

InitState(cli, file) ==
  /\ pc = "boot"
  /\ CLI_A4 = cli
  /\ a4File = file
  /\ REFERENCE_FREQ = BootA4(cli, file)
  /\ a4Call = NoCall
  /\ overlay = TRUE
  /\ selIdx = 0
  /\ activeDev = Null
  /\ freq = Null
  /\ smoothMidi = Null
  /\ waterfall = <<>>
  /\ vu = 0
  /\ vuPeak = 0
  /\ vuPeakTimer = 0
  /\ history = <<>>
  /\ proc = Null
  /\ cols = 80
  /\ status = "Starting"
  /\ lostFrames = 0
  /\ nSess = 0
  /\ sampleRate = [s \in Sessions |-> 0]
  /\ buffer = [s \in Sessions |-> <<>>]
  /\ active = [s \in Sessions |-> FALSE]
  /\ pstate = [s \in Sessions |-> "none"]
  /\ killed = [s \in Sessions |-> FALSE]
  /\ pipe = [s \in Sessions |-> <<>>]
  /\ sent = [s \in Sessions |-> <<>>]
  /\ loop = [s \in Sessions |-> "none"]
  /\ closed = [s \in Sessions |-> FALSE]
  /\ received = [s \in Sessions |-> <<>>]
  /\ emitted = [s \in Sessions |-> <<>>]
  /\ ragged = [s \in Sessions |-> FALSE]
  /\ probe = NoProbe
  /\ keyTick = FALSE

\* -------------------------------------------------------------------------
\* startCapture up to its first await (lines 612-655)
\* -------------------------------------------------------------------------

\* A startCapture whose pending bytes are those the session before left.
startCaptureShared(dev) ==
  LET s == nSess + 1
  IN  /\ nSess < MaxSessions
      /\ nSess' = s
      /\ killed' = IF IsNull(proc) THEN killed
                   ELSE [killed EXCEPT ![Val(proc)] = TRUE]
      /\ proc' = Some(s)
      /\ status' = "Capturing"
      /\ sampleRate' = [sampleRate EXCEPT ![s] = dev.rate]
      /\ buffer' = [buffer EXCEPT ![s] = IF s > 1 THEN buffer[s - 1] ELSE <<>>]
      /\ active' = [active EXCEPT ![s] = TRUE]
      /\ pstate' = [pstate EXCEPT ![s] = "running"]
      /\ loop' = [loop EXCEPT ![s] = "reading"]
      /\ UNCHANGED <<anVars, pipe, sent, closed, received, emitted, ragged, probe, keyTick>>

\* spawnCapture returns a process for each of the three backends
\* detectDevices produces, so the branch of line 616 is not taken.
startCapture(dev) ==
  LET s == nSess + 1
  IN  /\ nSess < MaxSessions
      /\ nSess' = s
      /\ killed' = IF IsNull(proc) THEN killed
                   ELSE [killed EXCEPT ![Val(proc)] = TRUE]
      /\ proc' = Some(s)
      /\ status' = "Capturing"
      /\ sampleRate' = [sampleRate EXCEPT ![s] = dev.rate]
      /\ buffer' = [buffer EXCEPT ![s] = <<>>]
      /\ active' = [active EXCEPT ![s] = TRUE]
      /\ pstate' = [pstate EXCEPT ![s] = "running"]
      /\ loop' = [loop EXCEPT ![s] = "reading"]
      /\ UNCHANGED <<anVars, pipe, sent, closed, received, emitted, ragged, probe, keyTick>>

\* -------------------------------------------------------------------------
\* main (lines 821-858)
\* -------------------------------------------------------------------------

\* autoConnect() finds the saved device at index idx and starts capture.
MainAutoConnect(c, idx) ==
  /\ pc = "boot"
  /\ pc' = "run"
  /\ cols' = c
  /\ activeDev' = Some(devices[idx + 1])
  /\ selIdx' = idx
  /\ overlay' = FALSE
  /\ startCapture(devices[idx + 1])
  /\ UNCHANGED a4Vars

\* No saved device: the selector overlay stays open.
MainOverlay(c) ==
  /\ pc = "boot"
  /\ pc' = "run"
  /\ cols' = c
  /\ overlay' = TRUE
  /\ UNCHANGED <<a4Vars, selIdx, activeDev, anVars, proc, status, nSess,
                 closureVars, procVars, loopVars, probe, keyTick>>

\* -------------------------------------------------------------------------
\* Key handlers (setupInput, lines 774-812)
\* -------------------------------------------------------------------------

KeyUp ==
  /\ pc = "run" /\ overlay
  /\ selIdx' = Max2(0, selIdx - 1)
  /\ UNCHANGED <<pc, a4Vars, overlay, activeDev, cols, anVars, proc, status, nSess,
                 closureVars, procVars, loopVars, probe, keyTick>>

KeyDown ==
  /\ pc = "run" /\ overlay
  /\ selIdx' = Min2(Len(devices) - 1, selIdx + 1)
  /\ UNCHANGED <<pc, a4Vars, overlay, activeDev, cols, anVars, proc, status, nSess,
                 closureVars, procVars, loopVars, probe, keyTick>>

KeyEnter ==
  /\ pc = "run" /\ overlay
  /\ activeDev' = Some(devices[selIdx + 1])
  /\ overlay' = FALSE
  /\ startCapture(devices[selIdx + 1])
  /\ UNCHANGED <<pc, a4Vars, selIdx, cols>>

\* 'i' or Esc: handled on the tuner screen only (line 790 is in the else
\* branch of `if (state.overlay)`); with the overlay open no branch matches.
KeyInput ==
  /\ pc = "run"
  /\ overlay' = (IF overlay THEN overlay ELSE TRUE)
  /\ keyTick' = ~keyTick
  /\ UNCHANGED <<pc, a4Vars, selIdx, activeDev, cols, anVars, proc, status, nSess,
                 closureVars, procVars, loopVars, probe>>

\* The callback of the 'A' prompt with the parsed answer n (FHz or NaN as
\* FNull); ok as in saveA4.
KeyA4Prompt(n, ok) ==
  /\ pc = "run" /\ ~overlay
  /\ IF n.k = "hz" /\ n.c >= A4_MIN * HZ /\ n.c <= A4_MAX * HZ
     THEN /\ saveA4(n.c, ok)
          /\ status' = "A4set"
          /\ a4Call' = [op |-> "prompt", arg |-> n, saved |-> TRUE, val |-> n.c]
     ELSE /\ UNCHANGED <<REFERENCE_FREQ, a4File, status>>
          /\ a4Call' = [op |-> "prompt", arg |-> n, saved |-> FALSE]
  /\ UNCHANGED <<pc, CLI_A4, uiVars, anVars, proc, nSess, closureVars, procVars,
                 loopVars, probe, keyTick>>

\* '+' or '=': saveA4(Math.min(465, REFERENCE_FREQ + 0.5))
KeyPlus(ok) ==
  /\ pc = "run" /\ ~overlay
  /\ saveA4(Min2(A4_MAX * HZ, REFERENCE_FREQ + HZ \div 2), ok)
  /\ a4Call' = [op |-> "plus", saved |-> TRUE,
                val |-> Min2(A4_MAX * HZ, REFERENCE_FREQ + HZ \div 2)]
  /\ UNCHANGED <<pc, CLI_A4, uiVars, anVars, proc, status, nSess, closureVars,
                 procVars, loopVars, probe, keyTick>>

\* '-': saveA4(Math.max(415, REFERENCE_FREQ - 0.5))
KeyMinus(ok) ==
  /\ pc = "run" /\ ~overlay
  /\ saveA4(Max2(A4_MIN * HZ, REFERENCE_FREQ - HZ \div 2), ok)
  /\ a4Call' = [op |-> "minus", saved |-> TRUE,
                val |-> Max2(A4_MIN * HZ, REFERENCE_FREQ - HZ \div 2)]
  /\ UNCHANGED <<pc, CLI_A4, uiVars, anVars, proc, status, nSess, closureVars,
                 procVars, loopVars, probe, keyTick>>

\* -------------------------------------------------------------------------
\* The capture process and its stdout
\* -------------------------------------------------------------------------

\* Bytes the pipe holds at most: two frames.
PipeCap == 2 * chunkSize

\* The process writes the bytes of one more frame, of at most cap frames.
ProcWrite(s, fr, cap) ==
  /\ pstate[s] = "running" /\ ~killed[s]
  /\ Len(sent[s]) < cap
  /\ Len(pipe[s]) + chunkSize <= PipeCap
  /\ pipe' = [pipe EXCEPT ![s] = @ \o Encode(fr)]
  /\ sent' = [sent EXCEPT ![s] = Append(@, fr)]
  /\ UNCHANGED <<pc, a4Vars, uiVars, anVars, proc, status, nSess, closureVars,
                 pstate, killed, loopVars, probe, keyTick>>

\* The process exits, of itself or killed, after k bytes of a last frame.
ProcExit(s, k) ==
  /\ pstate[s] = "running"
  /\ Len(pipe[s]) + k <= PipeCap
  /\ pstate' = [pstate EXCEPT ![s] = "exited"]
  /\ pipe' = [pipe EXCEPT ![s] = @ \o SubSeq(Encode(Pulse), 1, k)]
  /\ UNCHANGED <<pc, a4Vars, uiVars, anVars, proc, status, nSess, closureVars,
                 killed, sent, loopVars, probe, keyTick>>

\* -------------------------------------------------------------------------
\* The read loop of a session (lines 655-702) and the 'close' callback
\* -------------------------------------------------------------------------

\* One iteration of for await: the next chunk is the first k bytes of the
\* pipe.
ReadChunk(s, k) ==
  /\ loop[s] = "reading"
  /\ k >= 1 /\ k <= Len(pipe[s])
  /\ pipe' = [pipe EXCEPT ![s] = SubSeq(@, k + 1, Len(@))]
  /\ IF ~active[s]
     THEN /\ loop' = [loop EXCEPT ![s] = "done"]
          /\ UNCHANGED <<anVars, status, buffer, active, received, emitted, ragged>>
     ELSE LET cut == Slices(buffer[s] \o SubSeq(pipe[s], 1, k))
          IN  /\ buffer' = [buffer EXCEPT ![s] = cut.buffer]
              /\ SetAnalysis(ProcessFrames(Analysis, cut.frames, sampleRate[s],
                                           REFERENCE_FREQ))
              /\ received' = [received EXCEPT ![s] = @ \o SubSeq(pipe[s], 1, k)]
              /\ emitted' = [emitted EXCEPT ![s] = @ \o cut.frames]
              /\ ragged' = [ragged EXCEPT ![s] = @ \/ cut.buffer # <<>>]
              /\ UNCHANGED <<active, loop>>
  /\ UNCHANGED <<pc, a4Vars, uiVars, proc, nSess, sampleRate, pstate, killed,
                 sent, closed, probe, keyTick>>

\* The stream has ended: for await completes and line 701 runs.
LoopEnd(s) ==
  /\ loop[s] = "reading"
  /\ pstate[s] = "exited" /\ pipe[s] = <<>>
  /\ loop' = [loop EXCEPT ![s] = "done"]
  /\ active' = [active EXCEPT ![s] = FALSE]
  /\ UNCHANGED <<pc, a4Vars, uiVars, anVars, proc, status, nSess, sampleRate,
                 buffer, procVars, closed, received, emitted, ragged, probe, keyTick>>

\* A 'close' callback that tests its session's flag only, not whose
\* process state.proc is.
CloseUnguarded(s) ==
  /\ pstate[s] = "exited" /\ pipe[s] = <<>>
  /\ ~closed[s]
  /\ closed' = [closed EXCEPT ![s] = TRUE]
  /\ IF active[s]
     THEN /\ status' = "Ended"
          /\ proc' = Null
          /\ smoothMidi' = Null
          /\ freq' = Null
     ELSE UNCHANGED <<status, proc, smoothMidi, freq>>
  /\ UNCHANGED <<pc, a4Vars, uiVars, waterfall, vu, vuPeak, vuPeakTimer, history,
                 lostFrames, nSess, closureVars, procVars, loop, received, emitted,
                 ragged, probe, keyTick>>

\* proc.on("close", ...), lines 642-650: delivered once the process has
\* exited and its stdout has been read to the end.
Close(s) ==
  /\ pstate[s] = "exited" /\ pipe[s] = <<>>
  /\ ~closed[s]
  /\ closed' = [closed EXCEPT ![s] = TRUE]
  /\ IF active[s] /\ proc = Some(s)
     THEN /\ status' = "Ended"
          /\ proc' = Null
          /\ smoothMidi' = Null
          /\ freq' = Null
     ELSE UNCHANGED <<status, proc, smoothMidi, freq>>
  /\ UNCHANGED <<pc, a4Vars, uiVars, waterfall, vu, vuPeak, vuPeakTimer, history,
                 lostFrames, nSess, closureVars, procVars, loop, received, emitted,
                 ragged, probe, keyTick>>

\* -------------------------------------------------------------------------
\* The tuner with its sessions
\* -------------------------------------------------------------------------

Frames == {Silent, Pulse}

\* Bytes of an unfinished frame a process may leave behind when it exits.
Trailing == {0, 1}

\* Here the read loop is handed everything the pipe holds; SpecAsm below
\* splits the stream at every byte.
ChunkLens(s) == {Len(pipe[s])} \ {0}

Init == InitState(FHz(0), FileAbsent)

Next ==
  \/ \E c \in Cols, idx \in 0..(Len(devices) - 1) : MainAutoConnect(c, idx)
  \/ \E c \in Cols : MainOverlay(c)
  \/ KeyUp
  \/ KeyDown
  \/ KeyEnter
  \/ KeyInput
  \/ \E s \in Sessions, fr \in Frames : ProcWrite(s, fr, MaxFrames)
  \/ \E s \in Sessions, k \in Trailing : ProcExit(s, k)
  \/ \E s \in Sessions : \E k \in ChunkLens(s) : ReadChunk(s, k)
  \/ \E s \in Sessions : LoopEnd(s)
  \/ \E s \in Sessions : Close(s)

Spec == Init /\ [][Next]_vars

\* C4: once the stream of the current capture process (the latest session,
\* never killed) has terminated, with its 'close' callback and its read
\* loop's exit both done in either order, proc, smoothMidi and freq are null.
C4_TerminationClears ==
  \A s \in Sessions :
    (s = nSess /\ ~killed[s] /\ closed[s] /\ loop[s] = "done")
      => proc = Null /\ smoothMidi = Null /\ freq = Null

\* C5: every step in which startCapture begins a session leaves the
\* tracker, the level meter and the history buffers at their initial values.
C5_FreshSession ==
  [][nSess' # nSess =>
       /\ smoothMidi' = Null /\ freq' = Null /\ lostFrames' = 0
       /\ vu' = 0 /\ vuPeak' = 0 /\ vuPeakTimer' = 0
       /\ history' = <<>> /\ waterfall' = <<>>]_vars

\* C6: a step in which a session's read loop analyses frames is a step of
\* the session whose process is state.proc and was not killed; so no frame
\* of a killed session reaches the shared state and one loop writes at a time.
C6_Cancelled ==
  [][\A s \in Sessions :
       emitted'[s] # emitted[s] => ~killed[s] /\ proc = Some(s)]_vars

\* -------------------------------------------------------------------------
\* One session whose stream is split at every byte
\* -------------------------------------------------------------------------

AsmFrames == {Pulse, Ramp}

NextAsm ==
  \/ \E c \in Cols, idx \in 0..(Len(devices) - 1) :
       nSess = 0 /\ MainAutoConnect(c, idx)
  \/ \E fr \in AsmFrames : ProcWrite(1, fr, MaxFrames + 1)
  \/ \E k \in 0..(chunkSize - 1) : ProcExit(1, k)
  \/ \E k \in 1..Len(pipe[1]) : ReadChunk(1, k)
  \/ LoopEnd(1)
  \/ Close(1)

SpecAsm == Init /\ [][NextAsm]_vars

\* The Int16 a byte pair stands for.
S16(lo, hi) == IF hi >= 128 THEN lo + 256 * hi - 65536 ELSE lo + 256 * hi

\* The frames a byte stream holds, read off the stream alone: frame j is
\* bytes (j-1)*chunkSize+1 .. j*chunkSize.
FramesOf(bytes) ==
  [j \in 1..(Len(bytes) \div chunkSize) |->
     [i \in 1..FrameLen |-> S16(bytes[(j - 1) * chunkSize + 2 * i - 1],
                                bytes[(j - 1) * chunkSize + 2 * i])]]

\* C1: however the bytes handed to a session's read loop were split into
\* chunks, the frames analysed are exactly the frames of the byte stream:
\* floor(bytes / chunkSize) of them (k for k * chunkSize bytes), in stream
\* order, each sample the little-endian Int16 of its byte pair.
C1_ChunkingExact ==
  \A s \in Sessions :
    /\ emitted[s] = FramesOf(received[s])
    /\ Len(received[s]) % chunkSize = 0
         => Len(emitted[s]) * chunkSize = Len(received[s])

\* C1: two frames' worth of bytes arrived in chunks of which at least one
\* ended inside a frame, and two different frames came out.
C1_Witness ==
  /\ Len(received[1]) = 2 * chunkSize
  /\ ragged[1]
  /\ Len(emitted[1]) = 2
  /\ emitted[1][1] # emitted[1][2]

\* C2: after every chunk the pending buffer is shorter than a frame's bytes,
\* it is the tail of the bytes received, every analysed frame encodes to the
\* chunkSize consecutive bytes at its place in arrival order, and frames *
\* chunkSize + pending = bytes received.
C2_NoByteLost ==
  \A s \in Sessions :
    LET n == Len(emitted[s])
    IN  /\ Len(buffer[s]) < chunkSize
        /\ n * chunkSize + Len(buffer[s]) = Len(received[s])
        /\ buffer[s] = SubSeq(received[s], n * chunkSize + 1, Len(received[s]))
        /\ \A j \in 1..n :
             Encode(emitted[s][j])
               = SubSeq(received[s], (j - 1) * chunkSize + 1, j * chunkSize)

\* C2: a frame has been analysed and an odd number of bytes of the next
\* is pending.
C2_Witness ==
  /\ Len(emitted[1]) >= 1
  /\ Len(buffer[1]) % 2 = 1
  /\ Len(received[1]) > chunkSize

\* -------------------------------------------------------------------------
\* One session, one frame after another
\* -------------------------------------------------------------------------

\* Frames one session delivers here.
TrackFrames == 8

TrackFrameSet == {Silent, Flat, Pulse}

NextTrack ==
  \/ \E c \in Cols : nSess = 0 /\ MainAutoConnect(c, 0)
  \/ \E fr \in TrackFrameSet : ProcWrite(1, fr, TrackFrames)
  \/ ProcExit(1, 0)
  \/ \E k \in ChunkLens(1) : ReadChunk(1, k)
  \/ LoopEnd(1)
  \/ Close(1)

SpecTrack == Init /\ [][NextTrack]_vars

\* Whether the frame fr gives the tracker a candidate at the given rate.
Voiced(fr, rate) == Candidate(detectPitch(fr, rate))

\* The number of frames without a candidate at the end of frames.
RECURSIVE TrailingLost(_, _)
TrailingLost(frames, rate) ==
  IF frames = <<>> \/ Voiced(frames[Len(frames)], rate) THEN 0
  ELSE 1 + TrailingLost(SubSeq(frames, 1, Len(frames) - 1), rate)

\* The number of frames without a candidate anywhere in frames.
TotalLost(frames, rate) ==
  Cardinality({j \in 1..Len(frames) : ~Voiced(frames[j], rate)})

\* C3: while the session's stream is open and some frame has been voiced,
\* the consecutive-silence counter is the number t of no-candidate frames
\* since the last voiced one; with t <= 5 the smoothed pitch is present and
\* hasSignal holds, with t >= 6 the pitch and frequency are null.
C3_Hysteresis ==
  LET fs == emitted[1]
      t == TrailingLost(fs, sampleRate[1])
  IN  (~closed[1] /\ \E j \in 1..Len(fs) : Voiced(fs[j], sampleRate[1]))
        => /\ lostFrames = t
           /\ t <= 5 => smoothMidi # Null /\ freq # Null /\ hasSignal
           /\ t >= 6 => smoothMidi = Null /\ freq = Null /\ ~hasSignal

\* C3: five no-candidate frames since the last voiced frame, six or more
\* in all since the first voiced one, and the pitch is still shown.
C3_Witness ==
  LET fs == emitted[1]
  IN  /\ ~closed[1]
      /\ fs # <<>>
      /\ Voiced(fs[1], sampleRate[1])
      /\ TrailingLost(fs, sampleRate[1]) = 5
      /\ TotalLost(fs, sampleRate[1]) >= 6
      /\ hasSignal

\* -------------------------------------------------------------------------
\* The reference pitch from every entry point
\* -------------------------------------------------------------------------

\* --a4= absent, unparsable, in range, above and below the range.
CliSet == {FHz(0), FNull, FHz(442 * HZ), FHz(500 * HZ), FHz(300 * HZ)}

\* The a4 file absent, unparsable, in range and out of range.
FileSet == {FileAbsent, FileJunk, FileText(432 * HZ + HZ \div 4), FileText(500 * HZ)}

\* Answers to the 'A' prompt, parsed.
PromptSet ==
  {FNull, FHz(415 * HZ - 1), FHz(415 * HZ), FHz(440 * HZ), FHz(465 * HZ),
   FHz(465 * HZ + 1), FHz(500 * HZ)}

InitA4 == \E cli \in CliSet, file \in FileSet : InitState(cli, file)

NextA4 ==
  \/ \E c \in Cols : MainAutoConnect(c, 0)
  \/ \E n \in PromptSet, ok \in BOOLEAN : KeyA4Prompt(n, ok)
  \/ \E ok \in BOOLEAN : KeyPlus(ok)
  \/ \E ok \in BOOLEAN : KeyMinus(ok)

SpecA4 == InitA4 /\ [][NextA4]_vars

InA4Range(v) == v >= 415 * HZ /\ v <= 465 * HZ

\* C7: a step that calls saveA4(v) with v outside 415..465 leaves
\* REFERENCE_FREQ and the a4 file as they were, one with v inside sets
\* REFERENCE_FREQ to v; the 'A' prompt calls saveA4 exactly for a number
\* inside 415..465 and otherwise changes neither.
C7_SaveA4Bound ==
  [][a4Call' # a4Call =>
       LET c == a4Call'
       IN  /\ (c.saved /\ ~InA4Range(c.val))
                => REFERENCE_FREQ' = REFERENCE_FREQ /\ a4File' = a4File
           /\ (c.saved /\ InA4Range(c.val)) => REFERENCE_FREQ' = c.val
           /\ c.op = "prompt"
                => /\ c.saved <=> (c.arg.k = "hz" /\ InA4Range(c.arg.c))
                   /\ ~c.saved
                        => REFERENCE_FREQ' = REFERENCE_FREQ /\ a4File' = a4File]_vars

\* C7: saveA4(499.5) was called and the reference pitch is still the 500
\* of the command line, nothing written.
C7_Witness ==
  /\ a4Call.op = "minus"
  /\ a4Call.val = 500 * HZ - HZ \div 2
  /\ REFERENCE_FREQ = 500 * HZ
  /\ a4File = FileAbsent

\* C8: the reference pitch is within 415..465 in every reachable state.
C8_A4InRange == InA4Range(REFERENCE_FREQ)

\* -------------------------------------------------------------------------
\* Long runs: more frames than the history holds
\* -------------------------------------------------------------------------

\* Frames written in all, over every session.
RingFrames == 203

\* Earlier sessions are short, the last one runs on; here a session starts
\* once the read loops before it have ended (Spec has them overlap).
RingCap(s) == IF s < MaxSessions THEN MaxFrames ELSE RingFrames

\* The frames follow a fixed cycle of voiced and unvoiced ones, so that
\* neighbouring entries of the buffers differ.
RingPattern == <<Pulse, PulseHi, Silent, PulseLo, Flat>>
RingFrame(i) == RingPattern[(i % Len(RingPattern)) + 1]

TotalSent == SumSeq([s \in Sessions |-> Len(sent[s])])
TotalEmitted == SumSeq([s \in Sessions |-> Len(emitted[s])])

NextRing ==
  \/ \E c \in Cols : MainAutoConnect(c, 0)
  \/ ~overlay /\ KeyInput
  \/ (\A s \in Sessions : loop[s] # "reading") /\ KeyEnter
  \/ \E s \in Sessions :
       TotalSent < RingFrames /\ ProcWrite(s, RingFrame(TotalSent), RingCap(s))
  \/ \E s \in Sessions : ProcExit(s, 0)
  \/ \E s \in Sessions : ReadChunk(s, chunkSize)
  \/ \E s \in Sessions : LoopEnd(s)
  \/ \E s \in Sessions : Close(s)

SpecRing == Init /\ [][NextRing]_vars

\* q2 is q with one entry appended, the oldest evicted if q held cap.
RingStep(q, q2, cap) ==
  IF Len(q) < cap
  THEN Len(q2) = Len(q) + 1 /\ SubSeq(q2, 1, Len(q)) = q
  ELSE Len(q2) = cap /\ SubSeq(q2, 1, cap - 1) = Tail(q)

\* C9: the history never holds more than 200 entries nor the waterfall more
\* than 20 rows, and each analysed frame appends one entry to each, evicting
\* exactly the oldest when the buffer is full and keeping the others in order.
C9_RingBuffers ==
  /\ [](Len(history) <= 200 /\ Len(waterfall) <= 20)
  /\ [][\A s \in Sessions :
          Len(emitted'[s]) = Len(emitted[s]) + 1
            => /\ RingStep(history, history', 200)
               /\ RingStep(waterfall, waterfall', 20)]_vars

\* C9: more than 200 frames have been analysed and both buffers are full,
\* the history holding different entries.
C9_Witness ==
  /\ TotalEmitted > 200
  /\ Len(history) = 200
  /\ Len(waterfall) = 20
  /\ history[1] # history[2]

\* -------------------------------------------------------------------------
\* calcBands applied to drawn frames
\* -------------------------------------------------------------------------

\* Frames of three sample levels, at the amplitude Amp and at one step of
\* the Int16 scale.
ProbeFrames == [1..FrameLen -> {-Amp, 0, Amp}] \cup [1..FrameLen -> {-1, 0, 1}]

\* Band counts Math.min(state.cols - 6, 80) of narrow terminals.
BandCounts == 0..5

ProbeRates == {devices[i].rate : i \in 1..Len(devices)}

CalcBandsProbe(buf, count, rate) ==
  /\ probe = NoProbe
  /\ probe' = [op |-> "calcBands", buf |-> buf, count |-> count, rate |-> rate,
               out |-> calcBands(buf, count, rate)]
  /\ UNCHANGED <<pc, a4Vars, uiVars, anVars, proc, status, nSess, closureVars,
                 procVars, loopVars, keyTick>>

NextBands ==
  /\ probe = NoProbe
  /\ \E buf \in ProbeFrames, count \in BandCounts, rate \in ProbeRates :
       CalcBandsProbe(buf, count, rate)

SpecBands == Init /\ [][NextBands]_vars

\* C10: every element of the vector calcBands returns is a number from 0
\* to 1.
C10_BandsInUnit ==
  probe.op = "calcBands"
    => \A i \in 1..Len(probe.out) :
         /\ ~IsNaN(probe.out[i])
         /\ Val(probe.out[i]) >= 0
         /\ Val(probe.out[i]) <= ONE

\* The raw band values of lines 707-714 for the probe's arguments.
ProbeRaw ==
  [i \in 1..probe.count |-> BandRaw(probe.buf, i - 1, probe.count, probe.rate)]

\* C11: for two or more bands, the largest element calcBands returns is
\* exactly 1 unless every raw band value was zero, and then every element
\* is zero.
C11_BandsNormalised ==
  (probe.op = "calcBands" /\ probe.count >= 2)
    => IF \A i \in 1..probe.count : ProbeRaw[i][1] = 0
       THEN \A i \in 1..probe.count : probe.out[i] = <<0>>
       ELSE /\ \E i \in 1..probe.count : probe.out[i] = <<ONE>>
            /\ \A i \in 1..probe.count : probe.out[i][1] <= ONE

\* -------------------------------------------------------------------------
\* The level meter over a rise, a long silence and a second rise
\* -------------------------------------------------------------------------

\* Frames the session delivers here.
MeterFrames == 50

MeterLevels == {Silent, Soft, Mid, Loud, Louder}

\* The frame with index i (from 0) is any of MeterLevels at the start and
\* at the end of the session and silent in between, but for the frame
\* PEAK_HOLD frames after the first, which is silent or loud.
MeterChoice(i) ==
  IF i <= 2 \/ i >= MeterFrames - 2 THEN MeterLevels
  ELSE IF i = PEAK_HOLD THEN {Silent, Loud}
  ELSE {Silent}

NextMeter ==
  \/ \E c \in Cols : nSess = 0 /\ MainAutoConnect(c, 0)
  \/ \E fr \in MeterChoice(Len(sent[1])) : ProcWrite(1, fr, MeterFrames)
  \/ ProcExit(1, 0)
  \/ ReadChunk(1, chunkSize)
  \/ LoopEnd(1)
  \/ Close(1)

SpecMeter == Init /\ [][NextMeter]_vars

\* C12: the level and the peak level are within 0..1 in every state.
C12_LevelsInUnit ==
  /\ vu >= 0 /\ vu <= ONE
  /\ vuPeak >= 0 /\ vuPeak <= ONE

\* C12: a frame whose scaled RMS is above 1 has been analysed and both
\* levels stand at 1.
C12_Witness ==
  /\ emitted[1] # <<>>
  /\ VuUnclamped(emitted[1][Len(emitted[1])]) > ONE
  /\ vu = ONE
  /\ vuPeak = ONE

\* A step of session 1's read loop that analyses one frame, and the frame.
MeterStep == Len(emitted'[1]) = Len(emitted[1]) + 1
LastFrame(frames) == frames[Len(frames)]

\* Whether f(frames[j]) grows strictly with j.
Rising(frames, f(_)) ==
  \A j \in 1..(Len(frames) - 1) : f(frames[j]) < f(frames[j + 1])

\* C13 as stated: on each frame the level becomes the scaled RMS if that
\* exceeds it and 0.92 of itself otherwise; while the RMS of the frames has
\* been increasing the level equals the scaled RMS of the last frame; on a
\* silent frame the level does not increase and strictly decreases if
\* positive.
C13_AttackReleaseStrict ==
  /\ []((emitted[1] # <<>> /\ ~closed[1] /\ Rising(emitted[1], VuUnclamped))
          => vu = VuScaled(LastFrame(emitted[1])))
  /\ [][MeterStep =>
          LET inst == VuScaled(LastFrame(emitted'[1]))
          IN  /\ inst > vu => vu' = inst
              /\ inst <= vu => (100 * vu' - 92 * vu <= 50 /\ 92 * vu - 100 * vu' <= 50)
              /\ inst = 0 => (vu' <= vu /\ (vu > 0 => vu' < vu))]_vars

\* C13 amended: as above, but the level equals the scaled RMS while the
\* scaled RMS min(1, 6 * rms) itself has been increasing, it never exceeds
\* the larger of its previous value and the scaled RMS, and on a silent
\* frame it strictly decreases while it is above 6 units of the arithmetic,
\* below which 0.92 of it rounds back to it.
C13_AttackRelease ==
  /\ []((emitted[1] # <<>> /\ ~closed[1] /\ Rising(emitted[1], VuScaled))
          => vu = VuScaled(LastFrame(emitted[1])))
  /\ [][MeterStep =>
          LET inst == VuScaled(LastFrame(emitted'[1]))
          IN  /\ inst > vu => vu' = inst
              /\ inst <= vu => (100 * vu' - 92 * vu <= 50 /\ 92 * vu - 100 * vu' <= 50)
              /\ vu' <= Max2(vu, inst)
              /\ inst = 0 => (vu' <= vu /\ (vu > 6 => vu' < vu))]_vars

\* C13: three frames of increasing level, then two or more silent ones,
\* and the level has come down from 1 without reaching 0.
C13_Witness ==
  LET fs == emitted[1]
  IN  /\ Len(fs) >= 5
      /\ fs[1] = Soft /\ fs[2] = Mid /\ fs[3] = Loud
      /\ \A j \in 4..Len(fs) : fs[j] = Silent
      /\ vu > 0 /\ vu < ONE

\* detectPitch applied once to a frame and a sample rate.
DetectPitchProbe(buf, rate) ==
  /\ probe = NoProbe
  /\ probe' = [op |-> "detectPitch", buf |-> buf, rate |-> rate,
               out |-> detectPitch(buf, rate)]
  /\ UNCHANGED <<pc, a4Vars, uiVars, anVars, proc, status, nSess, closureVars,
                 procVars, loopVars, keyTick>>

\* A longer frame that is zero except at its two ends, and the sample rate
\* at which its length is the largest lag searched.
EdgeLen == 3 * FrameLen + 1
EdgeRate == 40 * EdgeLen
EdgeFrame(a, b) ==
  [i \in 1..EdgeLen |-> IF i = 1 THEN a ELSE IF i = EdgeLen THEN b ELSE 0]
EdgeLevels == {0, 300, 648, 649, 1000}

\* A pure tone: a sinusoid of amplitude a with a period of TonePeriod
\* samples, sampled at its peaks and zero crossings from phase ph quarter
\* periods on.  The frame holds a little over two periods, and at ToneRate
\* the lags searched, 1 to ToneRate / 40, go beyond the frame, as they do
\* for 1024 samples at 48000 Hz (lags 30 to 1200).
TonePeriod == 4
ToneRate == 1600
ToneLen == 2 * FrameLen - 1
Tone(n, a, ph) ==
  [i \in 1..n |-> LET q == (i - 1 + ph) % TonePeriod
                  IN  IF q = 0 THEN a ELSE IF q = 2 THEN -a ELSE 0]
Tones == {Tone(ToneLen, Amp, ph) : ph \in 0..(TonePeriod - 1)}

\* Frames around the silence level (a constant frame of 229/32768 is below
\* it, one of 230/32768 is not), the frames of the band probe, and edge
\* frames.
PitchFrames ==
  [1..FrameLen -> {-230, -229, 0, 229, 230}] \cup ProbeFrames
    \cup {EdgeFrame(a, b) : a \in EdgeLevels, b \in EdgeLevels}
    \cup Tones
PitchRates == ProbeRates \cup {EdgeRate, ToneRate}

NextPitch ==
  /\ probe = NoProbe
  /\ \E buf \in PitchFrames, rate \in PitchRates : DetectPitchProbe(buf, rate)

SpecPitch == Init /\ [][NextPitch]_vars

\* rms < 0.007 for samples k / 32768: the mean square k^2 is below
\* 0.000049 * 2^30 = 52613 + 5459 / 15625.
Quiet(buf) ==
  SumSq(buf) <= 52613 * Len(buf) + (5459 * Len(buf)) \div 15625

\* C14: for a frame whose RMS is below 0.007, the all-zero frame included,
\* detectPitch returns null, at every sample rate.
C14_SilenceIsNull ==
  (probe.op = "detectPitch" /\ Quiet(probe.buf)) => probe.out = FNull

\* C14: a frame below the silence level, not all zero, whose best
\* correlation is above the peak threshold, has given null.
C14_Witness ==
  /\ probe.op = "detectPitch"
  /\ Quiet(probe.buf)
  /\ \E i \in 1..Len(probe.buf) : probe.buf[i] # 0
  /\ LET b == BestLag(probe.buf, probe.rate \div 1600, probe.rate \div 40,
                      [best |-> -1, bestV |-> NegInf])
     IN  b.best >= 0 /\ ~PeakWeak(b.bestV)
  /\ probe.out = FNull

\* C15: a keypress of 'i' or Esc opens the device selector when it is closed
\* and closes it when it is open.
C15_InputToggles == [][keyTick' # keyTick => overlay' = ~overlay]_vars

\* C16: for a frame holding a pure tone, detectPitch returns a frequency
\* within 1% of the tone's frequency, sample rate / period.
C16_ToneAccuracy ==
  (probe.op = "detectPitch" /\ probe.rate = ToneRate /\ probe.buf \in Tones)
    => /\ probe.out.k = "hz"
       /\ 100 * Abs(probe.out.c * TonePeriod - ToneRate * HZ)
            <= ToneRate * HZ

\* The tracker over two sessions in turn.  The first delivers up to
\* VoiceFrames frames, free at both ends and silent in between, so that a
\* voiced frame can follow five or six frames without a candidate; the user
\* reconnects once its stream has ended, and the second session delivers up
\* to two frames.
VoiceFrames == 9
VoiceLevels == {Silent, Flat, Pulse, PulseHi}
VoiceCap(s) == IF s = 1 THEN VoiceFrames ELSE 2
VoiceChoice(s, i) ==
  IF s = 1 /\ i <= 1 THEN VoiceLevels
  ELSE IF s = 1 /\ i < VoiceFrames - 2 THEN {Silent}
  ELSE {Pulse, PulseHi}

NextVoice ==
  \/ \E c \in Cols : MainAutoConnect(c, 0)
  \/ ~overlay /\ (\A s \in Sessions : loop[s] # "reading") /\ KeyInput
  \/ nSess < 2 /\ (\A s \in Sessions : loop[s] # "reading") /\ KeyEnter
  \/ \E s \in Sessions : \E fr \in VoiceChoice(s, Len(sent[s])) :
       ProcWrite(s, fr, VoiceCap(s))
  \/ \E s \in Sessions : ProcExit(s, 0)
  \/ \E s \in Sessions : ReadChunk(s, chunkSize)
  \/ \E s \in Sessions : LoopEnd(s)
  \/ \E s \in Sessions : Close(s)

SpecVoice == Init /\ [][NextVoice]_vars

\* Session s's read loop analyses one frame in this step.
FrameStep(s) == Len(emitted'[s]) = Len(emitted[s]) + 1

\* The estimate for the frame analysed in a FrameStep(s).
StepEstimate(s) == detectPitch(LastFrame(emitted'[s]), sampleRate[s])

\* C17: a frame whose estimate is null or lies outside (25, 2500) Hz adds 1
\* to lostFrames and appends one 0 to the history; the smoothed pitch and
\* the frequency are unchanged unless lostFrames is now above 5, and then
\* they are null.
C17_LostStep ==
  [][\A s \in Sessions :
       (FrameStep(s) /\ ~Candidate(StepEstimate(s)))
         => /\ lostFrames' = lostFrames + 1
            /\ history' = Append(history, 0)
            /\ lostFrames' <= 5 => (smoothMidi' = smoothMidi /\ freq' = freq)
            /\ lostFrames' > 5 => (smoothMidi' = Null /\ freq' = Null)]_vars

\* C17: a voiced frame, then a frame with an estimate out of range and one
\* with a null estimate, and the pitch of the voiced frame is still held.
C17_Witness ==
  /\ emitted[1] = <<Pulse, Flat, Silent>>
  /\ detectPitch(Silent, sampleRate[1]) = FNull
  /\ detectPitch(Flat, sampleRate[1]) = FInf
  /\ lostFrames = 2
  /\ Len(history) = 3 /\ history[2] = 0 /\ history[3] = 0
  /\ ~closed[1]
  /\ smoothMidi = Some(f2m(detectPitch(Pulse, sampleRate[1]).c, REFERENCE_FREQ))

MeterLevelOf == [fr \in MeterLevels |-> VuScaled(fr)]

RECURSIVE PeakByCount(_, _)
PeakByCount(frames, j) ==
  IF j = 0 THEN [vu |-> 0, peak |-> 0, since |-> 45]
  ELSE LET p == PeakByCount(frames, j - 1)
           lvl == VuNext(p.vu, MeterLevelOf[frames[j]])
       IN  IF lvl > p.peak THEN [vu |-> lvl, peak |-> lvl, since |-> 0]
           ELSE [vu |-> lvl,
                 peak |-> IF p.since + 1 >= 45 THEN RoundPct(p.peak, 97)
                          ELSE p.peak,
                 since |-> Min2(p.since + 1, 45)]

\* C19: once a frame with level > peak has set the peak and the countdown
\* to 45, the peak is unchanged on each following frame whose level does not
\* exceed it while the countdown is above 0 after its decrement, and is
\* 0.97 of itself on the 45th such frame and every later one, until a level
\* above the peak sets a new peak and the countdown to 45 again.
C19_PeakHold ==
  /\ [](~closed[1] => vuPeak = PeakByCount(emitted[1], Len(emitted[1])).peak)
  /\ [][MeterStep =>
          IF vu' > vuPeak THEN vuPeak' = vu' /\ vuPeakTimer' = 45
          ELSE /\ vuPeakTimer' = vuPeakTimer - 1
               /\ vuPeakTimer' > 0 => vuPeak' = vuPeak
               /\ vuPeakTimer' <= 0 =>
                    (100 * vuPeak' - 97 * vuPeak <= 50 /\ 97 * vuPeak - 100 * vuPeak' <= 50)]_vars

\* C19: a loud frame and 45 silent ones: the countdown has just reached 0
\* and the peak has fallen for the first time.
C19_Witness ==
  /\ Len(emitted[1]) = 46
  /\ emitted[1][1] = Loud
  /\ \A j \in 2..46 : emitted[1][j] = Silent
  /\ vuPeakTimer = 0
  /\ vuPeak = 970

\* parseNote and the in-tune mark of drawTuner applied once to a smoothed
\* pitch m.
ParseNoteProbe(m) ==
  /\ probe = NoProbe
  /\ probe' = [op |-> "parseNote", m |-> m, out |-> parseNote(m),
               inTune |-> inTune(Some(parseNote(m)))]
  /\ UNCHANGED <<pc, a4Vars, uiVars, anVars, proc, status, nSess, closureVars,
                 procVars, loopVars, keyTick>>

\* Smoothed pitches around the whole numbers from two octaves below MIDI 0
\* to an octave above it and around A4: on the number, 4.9, 5 and 5.1 cents
\* off it, and at the half-way points.
NoteNumbers == (-26..14) \cup (57..70)
NoteOffsets == {-500, -499, -51, -50, -49, 0, 49, 50, 51, 499}
NoteInputs == {r * SEMI + d : r \in NoteNumbers, d \in NoteOffsets}

NextNote == probe = NoProbe /\ \E m \in NoteInputs : ParseNoteProbe(m)

SpecNote == Init /\ [][NextNote]_vars

\* C20: with r the whole number nearest to m (halves upward), parseNote
\* gives the name index r modulo 12, in 0..11, and an octave with
\* 12 * (octave + 1) + index = r, also for r <= 0; cents is m - r in
\* hundredths of a semitone, and the note is marked in tune exactly when
\* |cents| <= 5.
C20_NoteDerivation ==
  probe.op = "parseNote"
    => \E r \in -30..130 :
         /\ 2 * r * SEMI - SEMI <= 2 * probe.m
         /\ 2 * probe.m < 2 * r * SEMI + SEMI
         /\ probe.out.name \in 0..11
         /\ probe.out.name = r % 12
         /\ 12 * (probe.out.oct + 1) + probe.out.name = r
         /\ probe.out.cents = probe.m - r * SEMI
         /\ probe.inTune <=> (probe.out.cents >= -50 /\ probe.out.cents <= 50)

\* C20: a pitch below MIDI 0, not on a C, exactly 5 cents flat and marked
\* in tune.
C20_Witness ==
  /\ probe.op = "parseNote"
  /\ probe.m < -SEMI
  /\ probe.out.name # 0
  /\ probe.out.oct < -1
  /\ probe.out.cents = -50
  /\ probe.inTune

\* C21: freq is null exactly when smoothMidi is null, a smoothed pitch goes
\* with lostFrames <= 5, and so whenever hasSignal holds freq is a number.
C21_FreqWithPitch ==
  /\ (freq = Null) <=> (smoothMidi = Null)
  /\ smoothMidi # Null => lostFrames <= 5
  /\ hasSignal => freq # Null

\* C21: five frames without a candidate since the last voiced one: the
\* pitch and the frequency are still there and drawn.
C21_Witness ==
  /\ lostFrames = 5
  /\ smoothMidi # Null /\ freq # Null
  /\ hasSignal
  /\ Len(emitted[1]) >= 6

\* -------------------------------------------------------------------------
\* Sessions of one frame each, restarted from the device selector
\* -------------------------------------------------------------------------

NextRestart ==
  \/ \E c \in Cols : MainAutoConnect(c, 0)
  \/ ~overlay /\ KeyInput
  \/ KeyEnter
  \/ \E s \in Sessions, fr \in Frames : ProcWrite(s, fr, 1)
  \/ \E s \in Sessions, k \in Trailing : ProcExit(s, k)
  \/ \E s \in Sessions : \E k \in ChunkLens(s) : ReadChunk(s, k)
  \/ \E s \in Sessions : LoopEnd(s)
  \/ \E s \in Sessions : Close(s)

SpecRestart == Init /\ [][NextRestart]_vars

\* C22: the 'close' callback of a process killed by a later startCapture
\* changes none of state.proc, smoothMidi, freq and status, whether it runs
\* before or after the new session's frames.
C22_StaleClose ==
  [][\A s \in Sessions :
       (closed'[s] /\ ~closed[s] /\ killed[s])
         => UNCHANGED <<proc, smoothMidi, freq, status>>]_vars

\* C22: the killed first session's 'close' has run, with its read loop's
\* flag still set, after the second session analysed a voiced frame; the
\* second session's process, pitch and status are in place.
C22_Witness ==
  /\ closed[1] /\ killed[1] /\ active[1]
  /\ emitted[2] = <<Pulse>> /\ Candidate(detectPitch(Pulse, sampleRate[2]))
  /\ proc = Some(2) /\ status # "Ended"
  /\ smoothMidi # Null /\ freq # Null

\* C23: after every processed frame the peak level is at least the level.
C23_PeakAboveLevel == vuPeak >= vu

\* C24: every lag at which detectPitch evaluates the autocorrelation of a
\* session's frame (the search range floor(R/1600)..floor(R/40) of lines
\* 726-734, which holds the neighbours best-1 and best+1 of line 743) is
\* smaller than the frame length, so the divisor n - lag is positive and the
\* correlation is a number, at every session sample rate R.
C24_LagsInsideFrame ==
  (/\ probe.op = "detectPitch"
   /\ Len(probe.buf) = FrameLen /\ probe.rate \in ProbeRates
   /\ ~RmsSilent(probe.buf))
    => \A lag \in (probe.rate \div 1600)..(probe.rate \div 40) :
         /\ lag < Len(probe.buf)
         /\ ~IsNaN(ac(probe.buf, lag))

\* C25: the pending bytes of a session are bytes of its own stream only
\* (what it was handed less the frames it cut), and its first frame is the
\* first chunkSize bytes of its own stream, the first frame its own process
\* wrote, whatever an earlier session left pending.
C25_PrivateBuffer ==
  \A s \in Sessions :
    /\ Len(buffer[s]) + chunkSize * Len(emitted[s]) = Len(received[s])
    /\ buffer[s] = SubSeq(received[s], chunkSize * Len(emitted[s]) + 1,
                          Len(received[s]))
    /\ emitted[s] # <<>> =>
         /\ <<emitted[s][1]>> = FramesOf(SubSeq(received[s], 1, chunkSize))
         /\ emitted[s][1] = sent[s][1]

\* C25: the first session ended with an odd byte pending and the second
\* one has analysed its first frame, a voiced one.
C25_Witness ==
  /\ loop[1] = "done"
  /\ Len(buffer[1]) % 2 = 1
  /\ emitted[2] # <<>> /\ emitted[2][1] = Pulse

====
